---- MODULE Spec2Model ----
(***************************************************************************)
(* Model of `rosa describe cluster` (cmd/describe/cluster/cmd.go).         *)
(*                                                                         *)
(* run is a sequential command: it fetches the cluster, the scheduled      *)
(* upgrade, the pools and the limited support reasons from the OCM client, *)
(* and prints either a structured document or a text report.  Each         *)
(* collaborator call is one step of the model; its result is drawn from a  *)
(* small set.  The report is a sequence of lines, each a label and the     *)
(* formatted values that follow it.  Lines that only copy a cluster        *)
(* attribute (ID, region, network, STS roles, ...) are represented by the  *)
(* "Name:" line alone.                                                     *)
(***************************************************************************)
EXTENDS Integers, Sequences, FiniteSets, TLC

VARIABLES pc, cluster, hasFlag, scheduledUpgrade, upgradeState,
          controlPlaneScheduledUpgrade, machinePools, nodePools,
          limitedSupportReasons, str, stdout, stderr, exitCode, calls

vars == <<pc, cluster, hasFlag, scheduledUpgrade, upgradeState,
          controlPlaneScheduledUpgrade, machinePools, nodePools,
          limitedSupportReasons, str, stdout, stderr, exitCode, calls>>

\* Longest pool list a fetch returns.
MaxPools == 2
\* Longest list of limited support reasons a fetch returns.
MaxReasons == 2

SeqUpTo(S, n) == UNION {[1..k -> S] : k \in 0..n}

(***************************************************************************)
(* Data returned by the collaborators.                                     *)
(***************************************************************************)

\* cmv1.Cluster: the attributes run branches on.  hasNodePools is
\* cluster.NodePools() != nil; compute/autoscaleCompute are cluster.Nodes().
NodesConfigs ==
  { [compute |-> 3, hasAutoscaleCompute |-> FALSE, minReplicas |-> 0, maxReplicas |-> 0],
    [compute |-> 0, hasAutoscaleCompute |-> TRUE,  minReplicas |-> 2, maxReplicas |-> 4],
    [compute |-> 0, hasAutoscaleCompute |-> TRUE,  minReplicas |-> 4, maxReplicas |-> 2] }

Clusters ==
  { [hypershift |-> h, hasNodePools |-> np, multiAZ |-> az, nodes |-> n,
     master |-> 3, infra |-> 2, creatorARNValid |-> a] :
      h \in BOOLEAN, np \in BOOLEAN, az \in BOOLEAN, n \in NodesConfigs,
      a \in BOOLEAN }

\* Classic clusters carry no node pool list, hosted ones no multi-AZ flag.
FetchedClusters ==
  { c \in Clusters : (c.hypershift => ~c.multiAZ) /\ (~c.hypershift => ~c.hasNodePools) }

NoCluster ==
  [hypershift |-> FALSE, hasNodePools |-> FALSE, multiAZ |-> FALSE,
   nodes |-> [compute |-> 0, hasAutoscaleCompute |-> FALSE, minReplicas |-> 0, maxReplicas |-> 0],
   master |-> 0, infra |-> 0, creatorARNValid |-> FALSE]

\* *cmv1.UpgradePolicy; present = FALSE is the nil pointer.  nextRun 0 is
\* the zero time the getter returns when the attribute is absent.
NilUpgradePolicy == [present |-> FALSE, version |-> "", hasNextRun |-> FALSE, nextRun |-> 0]

UpgradePolicies ==
  {NilUpgradePolicy} \cup
  { [present |-> TRUE, version |-> v, hasNextRun |-> t # 0, nextRun |-> t] :
      v \in {"", "4.12.1"}, t \in {0, 1} }

\* *cmv1.UpgradePolicyState
NilUpgradePolicyState == [present |-> FALSE, value |-> ""]

UpgradePolicyStates ==
  {NilUpgradePolicyState} \cup { [present |-> TRUE, value |-> s] : s \in {"", "scheduled"} }

\* *cmv1.ControlPlaneUpgradePolicy, with its embedded state
NilControlPlaneUpgradePolicy ==
  [present |-> FALSE, state |-> NilUpgradePolicyState, version |-> "",
   hasNextRun |-> FALSE, nextRun |-> 0]

ControlPlaneUpgradePolicies ==
  {NilControlPlaneUpgradePolicy} \cup
  { [present |-> TRUE, state |-> s, version |-> v, hasNextRun |-> t # 0, nextRun |-> t] :
      s \in UpgradePolicyStates, v \in {"", "4.12.1"}, t \in {0, 1} }

\* *cmv1.NodePool
NodePoolValues ==
  { [availabilityZone |-> "us-east-1a", hasAutoscaling |-> FALSE, minReplica |-> 0,
     maxReplica |-> 0, replicas |-> 2, hasStatus |-> TRUE, currentReplicas |-> 2],
    [availabilityZone |-> "us-east-1a", hasAutoscaling |-> FALSE, minReplica |-> 0,
     maxReplica |-> 0, replicas |-> 3, hasStatus |-> FALSE, currentReplicas |-> 0],
    [availabilityZone |-> "us-east-1b", hasAutoscaling |-> TRUE, minReplica |-> 1,
     maxReplica |-> 4, replicas |-> 0, hasStatus |-> TRUE, currentReplicas |-> 1],
    [availabilityZone |-> "us-east-1a", hasAutoscaling |-> TRUE, minReplica |-> 3,
     maxReplica |-> 1, replicas |-> 0, hasStatus |-> FALSE, currentReplicas |-> 0] }

\* *cmv1.MachinePool
MachinePoolValues ==
  { [hasAutoscaling |-> FALSE, minReplicas |-> 0, maxReplicas |-> 0, replicas |-> 2],
    [hasAutoscaling |-> FALSE, minReplicas |-> 0, maxReplicas |-> 0, replicas |-> 3],
    [hasAutoscaling |-> TRUE,  minReplicas |-> 1, maxReplicas |-> 4, replicas |-> 0],
    [hasAutoscaling |-> TRUE,  minReplicas |-> 3, maxReplicas |-> 1, replicas |-> 0] }

\* *cmv1.LimitedSupportReason
LimitedSupportReasonValues ==
  { [summary |-> "s1", details |-> "d1"],
    [summary |-> "s2", details |-> "d2"] }

(***************************************************************************)
(* Formatting helpers.                                                     *)
(***************************************************************************)

\* One line of output: the label and the values formatted after it.
Line(label, vals) == [label |-> label, vals |-> vals]

\* time.Time.Format("2006-01-02 15:04 MST") of the instants of the model
FormatTime(t) == IF t = 0 THEN "0001-01-01 00:00 UTC" ELSE "2023-06-01 12:00 UTC"

\* fmt's %t
FormatBool(b) == IF b THEN "true" ELSE "false"

\* fmt's %d
FormatInt(n) == ToString(n)

(***************************************************************************)
(* The pure functions of cmd.go.                                           *)
(***************************************************************************)

\* controlPlaneConfig
controlPlaneConfig(c) ==
  IF c.hypershift THEN "ROSA Service Hosted" ELSE "Customer Hosted"

\* clusterMultiAZ: the set multiAzMap collects the zones of the fetched
\* node pools, but only when the cluster itself carries a node pool list.
clusterMultiAZ(c, pools) ==
  IF c.hypershift
  THEN LET multiAzMap == {pools[i].availabilityZone : i \in DOMAIN pools}
           dataPlaneAvailability ==
             IF c.hasNodePools /\ Cardinality(multiAzMap) > 1
             THEN "MultiAZ" ELSE "SingleAZ"
       IN  << Line("Availability:", <<>>),
              Line(" - Control Plane:", <<"MultiAZ">>),
              Line(" - Data Plane:", <<dataPlaneAvailability>>) >>
  ELSE << Line("Multi-AZ:", <<FormatBool(c.multiAZ)>>) >>

\* The counters of clusterInfraConfig before its loops.
ZeroNodes == [minNodes |-> 0, maxNodes |-> 0, currentNodes |-> 0]

\* NodePoolStep reading the fixed replica count of every pool, autoscaled or not.
NodePoolStep_IgnoresAutoscaling(acc, nodePool) ==
  [minNodes |-> acc.minNodes + nodePool.replicas,
   maxNodes |-> acc.maxNodes + nodePool.replicas,
   currentNodes |-> acc.currentNodes +
                  (IF nodePool.hasStatus THEN nodePool.currentReplicas ELSE 0)]

\* Body of the loop over node pools (hosted).
NodePoolStep(acc, nodePool) ==
  [minNodes |-> acc.minNodes +
                  (IF nodePool.hasAutoscaling THEN nodePool.minReplica ELSE nodePool.replicas),
   maxNodes |-> acc.maxNodes +
                  (IF nodePool.hasAutoscaling THEN nodePool.maxReplica ELSE nodePool.replicas),
   currentNodes |-> acc.currentNodes +
                  (IF nodePool.hasStatus THEN nodePool.currentReplicas ELSE 0)]

\* MachinePoolStep with the autoscale bounds added to the wrong counters.
MachinePoolStep_SwapsBounds(acc, machinePool) ==
  [minNodes |-> acc.minNodes +
                  (IF machinePool.hasAutoscaling THEN machinePool.maxReplicas
                                                 ELSE machinePool.replicas),
   maxNodes |-> acc.maxNodes +
                  (IF machinePool.hasAutoscaling THEN machinePool.minReplicas
                                                 ELSE machinePool.replicas),
   currentNodes |-> acc.currentNodes]

\* Body of the loop over machine pools (classic).
MachinePoolStep(acc, machinePool) ==
  [minNodes |-> acc.minNodes +
                  (IF machinePool.hasAutoscaling THEN machinePool.minReplicas
                                                 ELSE machinePool.replicas),
   maxNodes |-> acc.maxNodes +
                  (IF machinePool.hasAutoscaling THEN machinePool.maxReplicas
                                                 ELSE machinePool.replicas),
   currentNodes |-> acc.currentNodes]

\* ClusterComputeStep that also counts the control plane nodes as compute.
ClusterComputeStep_AddsMaster(acc, c) ==
  [minNodes |-> acc.minNodes + c.master +
                  (IF c.nodes.hasAutoscaleCompute THEN c.nodes.minReplicas ELSE c.nodes.compute),
   maxNodes |-> acc.maxNodes + c.master +
                  (IF c.nodes.hasAutoscaleCompute THEN c.nodes.maxReplicas ELSE c.nodes.compute),
   currentNodes |-> acc.currentNodes]

\* "Add compute nodes as well": the cluster-level compute of a classic cluster.
ClusterComputeStep(acc, c) ==
  [minNodes |-> acc.minNodes +
                  (IF c.nodes.hasAutoscaleCompute THEN c.nodes.minReplicas ELSE c.nodes.compute),
   maxNodes |-> acc.maxNodes +
                  (IF c.nodes.hasAutoscaleCompute THEN c.nodes.maxReplicas ELSE c.nodes.compute),
   currentNodes |-> acc.currentNodes]

RECURSIVE NodePoolLoop(_, _, _)
NodePoolLoop(pools, i, acc) ==
  IF i > Len(pools) THEN acc
  ELSE NodePoolLoop(pools, i + 1, NodePoolStep(acc, pools[i]))

RECURSIVE MachinePoolLoop(_, _, _)
MachinePoolLoop(pools, i, acc) ==
  IF i > Len(pools) THEN acc
  ELSE MachinePoolLoop(pools, i + 1, MachinePoolStep(acc, pools[i]))

\* The counters clusterInfraConfig holds when it formats its result.
NodeCounts(c, mPools, nPools) ==
  IF c.hypershift
  THEN NodePoolLoop(nPools, 1, ZeroNodes)
  ELSE ClusterComputeStep(MachinePoolLoop(mPools, 1, ZeroNodes), c)

\* HostedNodesLines choosing the range only when min is below max.
HostedNodesLines_LessThan(n) ==
  IF n.minNodes < n.maxNodes
  THEN << Line("Nodes:", <<>>),
          Line(" - Compute (Autoscaled):", <<FormatInt(n.minNodes), FormatInt(n.maxNodes)>>),
          Line(" - Compute (current):", <<FormatInt(n.currentNodes)>>) >>
  ELSE << Line("Nodes:", <<>>),
          Line(" - Compute (desired):", <<FormatInt(n.maxNodes)>>),
          Line(" - Compute (current):", <<FormatInt(n.currentNodes)>>) >>

\* The hosted branch's Sprintf.
HostedNodesLines(n) ==
  IF n.minNodes # n.maxNodes
  THEN << Line("Nodes:", <<>>),
          Line(" - Compute (Autoscaled):", <<FormatInt(n.minNodes), FormatInt(n.maxNodes)>>),
          Line(" - Compute (current):", <<FormatInt(n.currentNodes)>>) >>
  ELSE << Line("Nodes:", <<>>),
          Line(" - Compute (desired):", <<FormatInt(n.maxNodes)>>),
          Line(" - Compute (current):", <<FormatInt(n.currentNodes)>>) >>

\* The classic branch's Sprintf.
ClassicNodesLines(c, n) ==
  IF n.minNodes = n.maxNodes
  THEN << Line("Nodes:", <<>>),
          Line(" - Control plane:", <<FormatInt(c.master)>>),
          Line(" - Infra:", <<FormatInt(c.infra)>>),
          Line(" - Compute:", <<FormatInt(n.minNodes)>>) >>
  ELSE << Line("Nodes:", <<>>),
          Line(" - Control plane:", <<FormatInt(c.master)>>),
          Line(" - Infra:", <<FormatInt(c.infra)>>),
          Line(" - Compute (Autoscaled):", <<FormatInt(n.minNodes), FormatInt(n.maxNodes)>>) >>

\* clusterInfraConfig
clusterInfraConfig(c, mPools, nPools) ==
  IF c.hypershift
  THEN HostedNodesLines(NodeCounts(c, mPools, nPools))
  ELSE ClassicNodesLines(c, NodeCounts(c, mPools, nPools))

\* The "Scheduled Upgrade:" part of the text report (run, after the OIDC line).
ScheduledUpgradeLines(c, su, us, cpsu) ==
  IF ~c.hypershift
  THEN IF su.present
       THEN << Line("Scheduled Upgrade:",
                    <<us.value, su.version, FormatTime(su.nextRun)>>) >>
       ELSE << >>
  ELSE IF cpsu.present
       THEN << Line("Scheduled Upgrade:",
                    <<cpsu.state.value, cpsu.version, FormatTime(cpsu.nextRun)>>) >>
       ELSE << >>

\* The text run has assembled when it asks for the limited support reasons.
ReportBeforeSupport(c, su, us, cpsu, mPools, nPools) ==
  << Line("Name:", <<>>), Line("Control Plane:", <<controlPlaneConfig(c)>>) >>
  \o clusterMultiAZ(c, nPools)
  \o clusterInfraConfig(c, mPools, nPools)
  \o ScheduledUpgradeLines(c, su, us, cpsu)

\* Body of the loop over the limited support reasons.
ReasonLines(reason) ==
  << Line(" - Summary:", <<reason.summary>>), Line(" - Details:", <<reason.details>>) >>

RECURSIVE ReasonsLoop(_, _, _)
ReasonsLoop(reasons, i, s) ==
  IF i > Len(reasons) THEN s
  ELSE ReasonsLoop(reasons, i + 1, s \o ReasonLines(reasons[i]))

\* LimitedSupportLines whose loop starts at the second reason.
LimitedSupportLines_SkipsFirst(s, reasons) ==
  LET withHeader == IF Len(reasons) > 0
                    THEN s \o << Line("Limited Support:", <<>>) >>
                    ELSE s
  IN  ReasonsLoop(reasons, 2, withHeader) \o << Line("", <<>>) >>

\* The tail of run: header, one pair of lines per reason, closing newline.
LimitedSupportLines(s, reasons) ==
  LET withHeader == IF Len(reasons) > 0
                    THEN s \o << Line("Limited Support:", <<>>) >>
                    ELSE s
  IN  ReasonsLoop(reasons, 1, withHeader) \o << Line("", <<>>) >>

\* formatCluster: the marshalled cluster plus the scheduledUpgrade entry.
formatCluster(c, su, us) ==
  << Line("cluster", <<controlPlaneConfig(c)>>) >> \o
  (IF su.present /\ us.present /\ su.version # "" /\ us.value # ""
   THEN << Line("scheduledUpgrade", <<su.version, us.value, FormatTime(su.nextRun)>>) >>
   ELSE << >>)

\* formatClusterHypershift
formatClusterHypershift(c, cpsu) ==
  << Line("cluster", <<controlPlaneConfig(c)>>) >> \o
  (IF cpsu.present /\ cpsu.state.present /\ cpsu.version # ""
      /\ cpsu.state.value # ""
   THEN << Line("scheduledUpgrade",
                <<cpsu.version, cpsu.state.value, FormatTime(cpsu.nextRun)>>) >>
   ELSE << >>)

(***************************************************************************)
(* run, one step per collaborator call.                                    *)
(***************************************************************************)

Init ==
  /\ pc = "FetchCluster"
  /\ cluster = NoCluster
  /\ hasFlag \in BOOLEAN
  /\ scheduledUpgrade = NilUpgradePolicy
  /\ upgradeState = NilUpgradePolicyState
  /\ controlPlaneScheduledUpgrade = NilControlPlaneUpgradePolicy
  /\ machinePools = << >>
  /\ nodePools = << >>
  /\ limitedSupportReasons = << >>
  /\ str = << >>
  /\ stdout = << >>
  /\ stderr = << >>
  /\ exitCode = -1
  /\ calls = << >>

\* A collaborator call and whether it returned without error.
Call(op, ok) == [op |-> op, ok |-> ok]

\* r.Reporter.Errorf(msg) followed by os.Exit(1)
Fail(msg) ==
  /\ stderr' = Append(stderr, msg)
  /\ exitCode' = 1
  /\ pc' = "exited"

\* return from run: the process ends with status 0
Return ==
  /\ exitCode' = 0
  /\ pc' = "done"

\* cluster := r.FetchCluster()
FetchCluster ==
  /\ pc = "FetchCluster"
  /\ \E c \in FetchedClusters : cluster' = c
  /\ pc' = "GetUpgrade"
  /\ calls' = Append(calls, Call("FetchCluster", TRUE))
  /\ UNCHANGED <<hasFlag, scheduledUpgrade, upgradeState, controlPlaneScheduledUpgrade,
                 machinePools, nodePools, limitedSupportReasons, str, stdout, stderr,
                 exitCode>>

\* The classic branch: r.OCMClient.GetScheduledUpgrade(cluster.ID())
GetScheduledUpgrade ==
  /\ pc = "GetUpgrade"
  /\ ~cluster.hypershift
  /\ \E ok \in BOOLEAN, su \in UpgradePolicies, us \in UpgradePolicyStates :
       /\ calls' = Append(calls, Call("GetScheduledUpgrade", ok))
       /\ IF ~ok
          THEN /\ Fail("Failed to get scheduled upgrades")
               /\ UNCHANGED <<scheduledUpgrade, upgradeState>>
          ELSE /\ scheduledUpgrade' = su
               /\ upgradeState' = us
               /\ pc' = IF hasFlag THEN "formatCluster" ELSE "ParseCreatorARN"
               /\ UNCHANGED <<stderr, exitCode>>
  /\ UNCHANGED <<cluster, hasFlag, controlPlaneScheduledUpgrade, machinePools, nodePools,
                 limitedSupportReasons, str, stdout>>

\* The hosted branch: r.OCMClient.GetControlPlaneScheduledUpgrade(cluster.ID())
GetControlPlaneScheduledUpgrade ==
  /\ pc = "GetUpgrade"
  /\ cluster.hypershift
  /\ \E ok \in BOOLEAN, cpsu \in ControlPlaneUpgradePolicies :
       /\ calls' = Append(calls, Call("GetControlPlaneScheduledUpgrade", ok))
       /\ IF ~ok
          THEN /\ Fail("Failed to get scheduled upgrades")
               /\ UNCHANGED controlPlaneScheduledUpgrade
          ELSE /\ controlPlaneScheduledUpgrade' = cpsu
               /\ pc' = IF hasFlag THEN "formatClusterHypershift" ELSE "ParseCreatorARN"
               /\ UNCHANGED <<stderr, exitCode>>
  /\ UNCHANGED <<cluster, hasFlag, scheduledUpgrade, upgradeState, machinePools, nodePools,
                 limitedSupportReasons, str, stdout>>

\* output.HasFlag() on a classic cluster: formatCluster, output.Print, return.
\* marshalOK is the outcome of cmv1.MarshalCluster, printOK that of output.Print.
PrintStructured ==
  /\ pc = "formatCluster"
  /\ \E marshalOK \in BOOLEAN, printOK \in BOOLEAN :
       IF ~marshalOK
       THEN /\ calls' = Append(calls, Call("formatCluster", FALSE))
            /\ Fail("formatCluster error")
            /\ UNCHANGED stdout
       ELSE IF ~printOK
       THEN /\ calls' = calls \o <<Call("formatCluster", TRUE), Call("output.Print", FALSE)>>
            /\ Fail("output.Print error")
            /\ UNCHANGED stdout
       ELSE /\ calls' = calls \o <<Call("formatCluster", TRUE), Call("output.Print", TRUE)>>
            /\ stdout' = stdout \o formatCluster(cluster, scheduledUpgrade, upgradeState)
            /\ Return
            /\ UNCHANGED stderr
  /\ UNCHANGED <<cluster, hasFlag, scheduledUpgrade, upgradeState,
                 controlPlaneScheduledUpgrade, machinePools, nodePools,
                 limitedSupportReasons, str>>

\* output.HasFlag() on a hosted cluster: formatClusterHypershift, output.Print, return.
PrintStructuredHypershift ==
  /\ pc = "formatClusterHypershift"
  /\ \E marshalOK \in BOOLEAN, printOK \in BOOLEAN :
       IF ~marshalOK
       THEN /\ calls' = Append(calls, Call("formatClusterHypershift", FALSE))
            /\ Fail("formatClusterHypershift error")
            /\ UNCHANGED stdout
       ELSE IF ~printOK
       THEN /\ calls' = calls \o <<Call("formatClusterHypershift", TRUE),
                                   Call("output.Print", FALSE)>>
            /\ Fail("output.Print error")
            /\ UNCHANGED stdout
       ELSE /\ calls' = calls \o <<Call("formatClusterHypershift", TRUE),
                                   Call("output.Print", TRUE)>>
            /\ stdout' = stdout \o formatClusterHypershift(cluster, controlPlaneScheduledUpgrade)
            /\ Return
            /\ UNCHANGED stderr
  /\ UNCHANGED <<cluster, hasFlag, scheduledUpgrade, upgradeState,
                 controlPlaneScheduledUpgrade, machinePools, nodePools,
                 limitedSupportReasons, str>>

\* ParseCreatorARN that drops the error of arn.Parse and goes on.
ParseCreatorARN_IgnoresError ==
  /\ pc = "ParseCreatorARN"
  /\ calls' = Append(calls, Call("arn.Parse", cluster.creatorARNValid))
  /\ pc' = "GetPools"
  /\ UNCHANGED <<stderr, exitCode>>
  /\ UNCHANGED <<cluster, hasFlag, scheduledUpgrade, upgradeState,
                 controlPlaneScheduledUpgrade, machinePools, nodePools,
                 limitedSupportReasons, str, stdout>>

\* creatorARN, err := arn.Parse(cluster.Properties()[properties.CreatorARN])
ParseCreatorARN ==
  /\ pc = "ParseCreatorARN"
  /\ calls' = Append(calls, Call("arn.Parse", cluster.creatorARNValid))
  /\ IF ~cluster.creatorARNValid
     THEN Fail("Failed to parse creator ARN")
     ELSE /\ pc' = "GetPools"
          /\ UNCHANGED <<stderr, exitCode>>
  /\ UNCHANGED <<cluster, hasFlag, scheduledUpgrade, upgradeState,
                 controlPlaneScheduledUpgrade, machinePools, nodePools,
                 limitedSupportReasons, str, stdout>>

\* isHypershift: nodePools, err = r.OCMClient.GetNodePools(cluster.ID()); on
\* success run assembles the report up to the provisioning error lines.
GetNodePools ==
  /\ pc = "GetPools"
  /\ cluster.hypershift
  /\ \E ok \in BOOLEAN, pools \in SeqUpTo(NodePoolValues, MaxPools) :
       /\ calls' = Append(calls, Call("GetNodePools", ok))
       /\ IF ~ok
          THEN /\ Fail("Failed to get machine pools")
               /\ UNCHANGED <<nodePools, str>>
          ELSE /\ nodePools' = pools
               /\ str' = ReportBeforeSupport(cluster, scheduledUpgrade, upgradeState,
                                             controlPlaneScheduledUpgrade, machinePools, pools)
               /\ pc' = "GetLimitedSupportReasons"
               /\ UNCHANGED <<stderr, exitCode>>
  /\ UNCHANGED <<cluster, hasFlag, scheduledUpgrade, upgradeState,
                 controlPlaneScheduledUpgrade, machinePools, limitedSupportReasons, stdout>>

\* GetMachinePools issued whatever the kind of the cluster.
GetMachinePools_Unconditional ==
  /\ pc = "GetPools"
  /\ \E ok \in BOOLEAN, pools \in SeqUpTo(MachinePoolValues, MaxPools) :
       /\ calls' = Append(calls, Call("GetMachinePools", ok))
       /\ IF ~ok
          THEN /\ Fail("Failed to get machine pools")
               /\ UNCHANGED <<machinePools, str>>
          ELSE /\ machinePools' = pools
               /\ str' = ReportBeforeSupport(cluster, scheduledUpgrade, upgradeState,
                                             controlPlaneScheduledUpgrade, pools, nodePools)
               /\ pc' = "GetLimitedSupportReasons"
               /\ UNCHANGED <<stderr, exitCode>>
  /\ UNCHANGED <<cluster, hasFlag, scheduledUpgrade, upgradeState,
                 controlPlaneScheduledUpgrade, nodePools, limitedSupportReasons, stdout>>

\* !isHypershift: machinePools, err = r.OCMClient.GetMachinePools(cluster.ID())
GetMachinePools ==
  /\ pc = "GetPools"
  /\ ~cluster.hypershift
  /\ \E ok \in BOOLEAN, pools \in SeqUpTo(MachinePoolValues, MaxPools) :
       /\ calls' = Append(calls, Call("GetMachinePools", ok))
       /\ IF ~ok
          THEN /\ Fail("Failed to get machine pools")
               /\ UNCHANGED <<machinePools, str>>
          ELSE /\ machinePools' = pools
               /\ str' = ReportBeforeSupport(cluster, scheduledUpgrade, upgradeState,
                                             controlPlaneScheduledUpgrade, pools, nodePools)
               /\ pc' = "GetLimitedSupportReasons"
               /\ UNCHANGED <<stderr, exitCode>>
  /\ UNCHANGED <<cluster, hasFlag, scheduledUpgrade, upgradeState,
                 controlPlaneScheduledUpgrade, nodePools, limitedSupportReasons, stdout>>

\* GetLimitedSupportReasons printing what is assembled before it looks at err.
GetLimitedSupportReasons_PrintsBeforeCheck ==
  /\ pc = "GetLimitedSupportReasons"
  /\ \E ok \in BOOLEAN, reasons \in SeqUpTo(LimitedSupportReasonValues, MaxReasons) :
       /\ calls' = Append(calls, Call("GetLimitedSupportReasons", ok))
       /\ IF ~ok
          THEN /\ Fail("Failed to get limited support reasons")
               /\ stdout' = stdout \o str
               /\ UNCHANGED <<limitedSupportReasons, str>>
          ELSE /\ limitedSupportReasons' = reasons
               /\ str' = LimitedSupportLines(str, reasons)
               /\ stdout' = stdout \o str'
               /\ Return
               /\ UNCHANGED stderr
  /\ UNCHANGED <<cluster, hasFlag, scheduledUpgrade, upgradeState,
                 controlPlaneScheduledUpgrade, machinePools, nodePools>>

\* r.OCMClient.GetLimitedSupportReasons(cluster.ID()), the limited support
\* section and fmt.Print(str)
GetLimitedSupportReasons ==
  /\ pc = "GetLimitedSupportReasons"
  /\ \E ok \in BOOLEAN, reasons \in SeqUpTo(LimitedSupportReasonValues, MaxReasons) :
       /\ calls' = Append(calls, Call("GetLimitedSupportReasons", ok))
       /\ IF ~ok
          THEN /\ Fail("Failed to get limited support reasons")
               /\ UNCHANGED <<limitedSupportReasons, str, stdout>>
          ELSE /\ limitedSupportReasons' = reasons
               /\ str' = LimitedSupportLines(str, reasons)
               /\ stdout' = stdout \o str'
               /\ Return
               /\ UNCHANGED stderr
  /\ UNCHANGED <<cluster, hasFlag, scheduledUpgrade, upgradeState,
                 controlPlaneScheduledUpgrade, machinePools, nodePools>>

Next ==
  \/ FetchCluster
  \/ GetScheduledUpgrade
  \/ GetControlPlaneScheduledUpgrade
  \/ PrintStructured
  \/ PrintStructuredHypershift
  \/ ParseCreatorARN
  \/ GetNodePools
  \/ GetMachinePools
  \/ GetLimitedSupportReasons

Spec == Init /\ [][Next]_vars

TypeOK ==
  /\ pc \in {"FetchCluster", "GetUpgrade", "formatCluster", "formatClusterHypershift",
             "ParseCreatorARN", "GetPools", "GetLimitedSupportReasons", "done", "exited"}
  /\ exitCode \in {-1, 0, 1}
  /\ hasFlag \in BOOLEAN

(***************************************************************************)
(* Properties.                                                             *)
(***************************************************************************)

HasLabel(s, l) == \E i \in DOMAIN s : s[i].label = l

ValsOf(s, l) == s[CHOOSE i \in DOMAIN s : s[i].label = l].vals

CallMade(op) == \E i \in DOMAIN calls : calls[i].op = op

CallSucceeded(op) == \E i \in DOMAIN calls : calls[i].op = op /\ calls[i].ok

AnyCallFailed == \E i \in DOMAIN calls : ~calls[i].ok

LastCallFailed(op) ==
  /\ calls # << >>
  /\ calls[Len(calls)].op = op
  /\ ~calls[Len(calls)].ok

Terminated == pc \in {"done", "exited"}

\* The text report has been assembled up to the limited support section.
ReportAssembled == str # << >>

RECURSIVE SumOf(_)
SumOf(seq) == IF Len(seq) = 0 THEN 0 ELSE seq[1] + SumOf(Tail(seq))

\* The sums of section 4.3 over the fetched node pools.
NodePoolsMin ==
  SumOf([i \in DOMAIN nodePools |->
           IF nodePools[i].hasAutoscaling THEN nodePools[i].minReplica
                                          ELSE nodePools[i].replicas])

NodePoolsMax ==
  SumOf([i \in DOMAIN nodePools |->
           IF nodePools[i].hasAutoscaling THEN nodePools[i].maxReplica
                                          ELSE nodePools[i].replicas])

NodePoolsCurrent ==
  SumOf([i \in DOMAIN nodePools |->
           IF nodePools[i].hasStatus THEN nodePools[i].currentReplicas ELSE 0])

\* The sums of section 4.3 over the fetched machine pools and the cluster.
ClusterComputeMin ==
  IF cluster.nodes.hasAutoscaleCompute THEN cluster.nodes.minReplicas
                                       ELSE cluster.nodes.compute

ClusterComputeMax ==
  IF cluster.nodes.hasAutoscaleCompute THEN cluster.nodes.maxReplicas
                                       ELSE cluster.nodes.compute

MachinePoolsMin ==
  SumOf([i \in DOMAIN machinePools |->
           IF machinePools[i].hasAutoscaling THEN machinePools[i].minReplicas
                                             ELSE machinePools[i].replicas])

MachinePoolsMax ==
  SumOf([i \in DOMAIN machinePools |->
           IF machinePools[i].hasAutoscaling THEN machinePools[i].maxReplicas
                                             ELSE machinePools[i].replicas])

ExpectedMin ==
  IF cluster.hypershift THEN NodePoolsMin ELSE MachinePoolsMin + ClusterComputeMin

ExpectedMax ==
  IF cluster.hypershift THEN NodePoolsMax ELSE MachinePoolsMax + ClusterComputeMax

\* The counters run's call of clusterInfraConfig worked with.
ReportedCounts == NodeCounts(cluster, machinePools, nodePools)

\* C1: once any collaborator call has failed the command has exited with
\* status 1 after one error message and standard output is empty; an exit
\* with status 1 never follows output; and a text report on standard output
\* means the upgrade fetch, the pool fetch and the limited support fetch of
\* the cluster's kind all succeeded.
C1_ErrorsAbortWithoutOutput ==
  /\ AnyCallFailed =>
       /\ pc = "exited"
       /\ exitCode = 1
       /\ Len(stderr) = 1
       /\ stdout = << >>
  /\ exitCode = 1 => stdout = << >>
  /\ (stdout # << >> /\ ~hasFlag) =>
       /\ CallSucceeded(IF cluster.hypershift THEN "GetControlPlaneScheduledUpgrade"
                                              ELSE "GetScheduledUpgrade")
       /\ CallSucceeded(IF cluster.hypershift THEN "GetNodePools" ELSE "GetMachinePools")
       /\ CallSucceeded("GetLimitedSupportReasons")
  /\ (stdout # << >> /\ hasFlag) =>
       /\ CallSucceeded(IF cluster.hypershift THEN "formatClusterHypershift"
                                              ELSE "formatCluster")
       /\ CallSucceeded("output.Print")

\* The limited support fetch failed after the whole report had been assembled.
C1_Witness ==
  /\ LastCallFailed("GetLimitedSupportReasons")
  /\ ReportAssembled
  /\ exitCode = 1

\* State, version and next run of the scheduled upgrade are all there.
UpgradeComplete ==
  IF cluster.hypershift
  THEN /\ controlPlaneScheduledUpgrade.present
       /\ controlPlaneScheduledUpgrade.state.present
       /\ controlPlaneScheduledUpgrade.state.value # ""
       /\ controlPlaneScheduledUpgrade.version # ""
       /\ controlPlaneScheduledUpgrade.hasNextRun
  ELSE /\ scheduledUpgrade.present
       /\ upgradeState.present
       /\ upgradeState.value # ""
       /\ scheduledUpgrade.version # ""
       /\ scheduledUpgrade.hasNextRun

\* C2: in text mode the "Scheduled Upgrade:" line is in the report if and
\* only if the state, the version and the next run are all present.
C2_UpgradeLineIffAllThree ==
  (pc = "done" /\ ~hasFlag) =>
     (HasLabel(stdout, "Scheduled Upgrade:") <=> UpgradeComplete)

\* C3: for a hosted cluster the data plane is "MultiAZ" if and only if the
\* fetched node pools span more than one availability zone, "SingleAZ"
\* otherwise, and the control plane is "MultiAZ".
C3_DataPlaneByFetchedZones ==
  (ReportAssembled /\ cluster.hypershift) =>
     /\ ValsOf(str, " - Control Plane:") = <<"MultiAZ">>
     /\ ValsOf(str, " - Data Plane:") =
          << IF Cardinality({nodePools[i].availabilityZone : i \in DOMAIN nodePools}) > 1
             THEN "MultiAZ" ELSE "SingleAZ" >>

\* C4: for a hosted cluster minNodes, maxNodes and currentNodes are the sums
\* over the node pools of autoscale min or replicas, autoscale max or
\* replicas, and current replicas (0 without status); the cluster-level
\* compute is not added, and without pools all three are 0.
C4_HostedNodeCounts ==
  (ReportAssembled /\ cluster.hypershift) =>
     /\ ReportedCounts = [minNodes |-> NodePoolsMin, maxNodes |-> NodePoolsMax,
                          currentNodes |-> NodePoolsCurrent]
     /\ ValsOf(str, " - Compute (current):") = <<FormatInt(NodePoolsCurrent)>>
     /\ nodePools = << >> => ReportedCounts = ZeroNodes

\* A hosted cluster with cluster-level compute, an autoscaled pool and a pool
\* without status.
C4_Witness ==
  /\ ReportAssembled /\ cluster.hypershift
  /\ ClusterComputeMax > 0
  /\ \E i \in DOMAIN nodePools : nodePools[i].hasAutoscaling
  /\ \E i \in DOMAIN nodePools : ~nodePools[i].hasStatus
  /\ NodePoolsMin # NodePoolsMax

\* C5: for a classic cluster the compute min and max are the machine pools'
\* contributions plus the cluster-level compute contribution; master and
\* infra are reported on their own lines and not added; without machine
\* pools the values are the cluster-level contribution alone.
C5_ClassicNodeCounts ==
  (ReportAssembled /\ ~cluster.hypershift) =>
     /\ ReportedCounts.minNodes = MachinePoolsMin + ClusterComputeMin
     /\ ReportedCounts.maxNodes = MachinePoolsMax + ClusterComputeMax
     /\ ValsOf(str, " - Control plane:") = <<FormatInt(cluster.master)>>
     /\ ValsOf(str, " - Infra:") = <<FormatInt(cluster.infra)>>
     /\ machinePools = << >> =>
          /\ ReportedCounts.minNodes = ClusterComputeMin
          /\ ReportedCounts.maxNodes = ClusterComputeMax

\* A classic cluster with machine pools, one of them autoscaled.
C5_Witness ==
  /\ ReportAssembled /\ ~cluster.hypershift
  /\ Len(machinePools) = 2
  /\ \E i \in DOMAIN machinePools : machinePools[i].hasAutoscaling
  /\ cluster.master > 0

\* C6: the compute count is one value ("Compute (desired)" hosted, "Compute"
\* classic) if and only if the aggregated min equals the aggregated max, and
\* a "Compute (Autoscaled)" min-max range if and only if they differ; the
\* single value is both min and max.
C6_SingleValueIffMinEqualsMax ==
  ReportAssembled =>
     LET single == IF cluster.hypershift THEN " - Compute (desired):" ELSE " - Compute:"
     IN  /\ HasLabel(str, single) <=> (ExpectedMin = ExpectedMax)
         /\ HasLabel(str, " - Compute (Autoscaled):") <=> (ExpectedMin # ExpectedMax)
         /\ HasLabel(str, single) =>
              /\ ValsOf(str, single) = <<FormatInt(ExpectedMin)>>
              /\ ValsOf(str, single) = <<FormatInt(ExpectedMax)>>
         /\ HasLabel(str, " - Compute (Autoscaled):") =>
              ValsOf(str, " - Compute (Autoscaled):") =
                <<FormatInt(ExpectedMin), FormatInt(ExpectedMax)>>

\* A hosted report with a range whose min is above its max.
C6_Witness ==
  /\ ReportAssembled /\ cluster.hypershift
  /\ ExpectedMin > ExpectedMax
  /\ HasLabel(str, " - Compute (Autoscaled):")

NoPoolAutoscales ==
  /\ \A i \in DOMAIN machinePools : ~machinePools[i].hasAutoscaling
  /\ \A i \in DOMAIN nodePools : ~nodePools[i].hasAutoscaling

\* Every autoscale config the aggregation reads has min <= max.
AutoscaleBoundsOrdered ==
  /\ \A i \in DOMAIN machinePools :
       machinePools[i].hasAutoscaling =>
         machinePools[i].minReplicas <= machinePools[i].maxReplicas
  /\ \A i \in DOMAIN nodePools :
       nodePools[i].hasAutoscaling => nodePools[i].minReplica <= nodePools[i].maxReplica
  /\ (~cluster.hypershift /\ cluster.nodes.hasAutoscaleCompute) =>
       cluster.nodes.minReplicas <= cluster.nodes.maxReplicas

\* C7 as stated: the aggregated counts satisfy min <= max for every cluster
\* and every list of pools, and min = max when no pool has an autoscale config.
C7_Original ==
  ReportAssembled =>
     /\ ReportedCounts.minNodes <= ReportedCounts.maxNodes
     /\ NoPoolAutoscales => ReportedCounts.minNodes = ReportedCounts.maxNodes

\* C7 amended: min <= max when every autoscale config read (the pools' and,
\* for a classic cluster, the cluster's) has min <= max; min = max, and the
\* single value is rendered, when no pool has an autoscale config and a
\* classic cluster has no compute autoscale config either.
C7_Amended ==
  ReportAssembled =>
     /\ AutoscaleBoundsOrdered => ReportedCounts.minNodes <= ReportedCounts.maxNodes
     /\ (NoPoolAutoscales /\ (cluster.hypershift \/ ~cluster.nodes.hasAutoscaleCompute)) =>
          /\ ReportedCounts.minNodes = ReportedCounts.maxNodes
          /\ ~HasLabel(str, " - Compute (Autoscaled):")

\* A classic cluster with fixed compute whose pools include a well-ordered
\* autoscale config.
C7_Witness ==
  /\ ReportAssembled /\ ~cluster.hypershift
  /\ AutoscaleBoundsOrdered
  /\ \E i \in DOMAIN machinePools : machinePools[i].hasAutoscaling
  /\ ReportedCounts.minNodes < ReportedCounts.maxNodes

\* The indices of the header line in the printed report.
SupportHeaders == {i \in DOMAIN stdout : stdout[i].label = "Limited Support:"}

\* C8: the "Limited Support:" header is printed if and only if the fetched
\* list of reasons is not empty, and it is followed by exactly one
\* Summary/Details pair per reason in the order of the list.
C8_LimitedSupportSection ==
  (pc = "done" /\ ~hasFlag) =>
     LET n == Len(limitedSupportReasons)
         IsPairLine(l) == l.label \in {" - Summary:", " - Details:"}
     IN  /\ Cardinality(SupportHeaders) = (IF n > 0 THEN 1 ELSE 0)
         /\ Len(SelectSeq(stdout, IsPairLine)) = 2 * n
         /\ \A h \in SupportHeaders :
              /\ Len(stdout) = h + 2 * n + 1
              /\ \A k \in 1..n :
                   /\ stdout[h + 2 * k - 1] =
                        Line(" - Summary:", <<limitedSupportReasons[k].summary>>)
                   /\ stdout[h + 2 * k] =
                        Line(" - Details:", <<limitedSupportReasons[k].details>>)

\* A printed report with two different reasons.
C8_Witness ==
  /\ pc = "done" /\ ~hasFlag
  /\ Len(limitedSupportReasons) = 2
  /\ limitedSupportReasons[1] # limitedSupportReasons[2]
  /\ HasLabel(stdout, "Limited Support:")

\* The lines of the assembled report that clusterInfraConfig produced.
NodesSection ==
  LET IsNodesLine(l) ==
        l.label \in {"Nodes:", " - Control plane:", " - Infra:", " - Compute:",
                     " - Compute (desired):", " - Compute (Autoscaled):",
                     " - Compute (current):"}
  IN  SelectSeq(str, IsNodesLine)

\* C9: at most one of the two pool fetches and one of the two upgrade
\* fetches is issued, the hosted one only for a hosted cluster and the
\* classic one only for a classic cluster; at most one of the two pool lists
\* is non-empty; and the node lines of the report do not depend on the pool
\* list of the other kind.
C9_OnePoolKind ==
  /\ ~(CallMade("GetNodePools") /\ CallMade("GetMachinePools"))
  /\ ~(CallMade("GetControlPlaneScheduledUpgrade") /\ CallMade("GetScheduledUpgrade"))
  /\ CallMade("GetNodePools") => cluster.hypershift
  /\ CallMade("GetControlPlaneScheduledUpgrade") => cluster.hypershift
  /\ CallMade("GetMachinePools") => ~cluster.hypershift
  /\ CallMade("GetScheduledUpgrade") => ~cluster.hypershift
  /\ machinePools = << >> \/ nodePools = << >>
  /\ ReportAssembled =>
       IF cluster.hypershift
       THEN \A other \in SeqUpTo(MachinePoolValues, 1) :
              clusterInfraConfig(cluster, other, nodePools) = NodesSection
       ELSE \A other \in SeqUpTo(NodePoolValues, 1) :
              clusterInfraConfig(cluster, machinePools, other) = NodesSection

\* A hosted run that fetched its node pools and printed the report.
C9_Witness ==
  /\ pc = "done" /\ cluster.hypershift
  /\ CallSucceeded("GetNodePools")
  /\ nodePools # << >>

\* C10 as stated: a creator ARN that does not parse makes run exit with
\* status 1 after an error and without output, whatever the output mode.
C10_Original ==
  (Terminated /\ ~cluster.creatorARNValid) =>
     /\ exitCode = 1
     /\ stderr # << >>
     /\ stdout = << >>

\* C10 amended: in text mode a creator ARN that does not parse makes run
\* exit with status 1 after an error and without output, and run stops at
\* the parse when it reaches it; in structured mode the creator ARN is never
\* parsed.
C10_Amended ==
  /\ (Terminated /\ ~cluster.creatorARNValid /\ ~hasFlag) =>
       /\ exitCode = 1
       /\ Len(stderr) = 1
       /\ stdout = << >>
       /\ ~CallMade("GetNodePools") /\ ~CallMade("GetMachinePools")
       /\ ~CallMade("GetLimitedSupportReasons")
  /\ hasFlag => ~CallMade("arn.Parse")

\* Text mode, the upgrade fetch succeeded and the parse of the ARN failed.
C10_Witness ==
  /\ ~hasFlag
  /\ LastCallFailed("arn.Parse")
  /\ pc = "exited"

====
